---- MODULE Spec2Model ----
(***************************************************************************)
(* TCP tunnel of the local server (src/relay/tcprelay/tunnel_local.rs):    *)
(* the accept loop of run(), the per-connection task                       *)
(* handle_tunnel_client / establish_client_tcp_tunnel, and the atomic      *)
(* score of each ServerScore that the ping balancer reads and writes.      *)
(***************************************************************************)
EXTENDS Naturals, FiniteSets

\* ---------------------------------------------------------------- bounds
\* number of configured servers (context.config().server)
NumServers == 2
\* scores are u64 in the program; the model keeps 0..MaxScore
MaxScore == 2
\* connections the listener accepts in one run of the model
MaxSessions == 2

Servers == 1..NumServers
Scores == 0..MaxScore
Sessions == 1..MaxSessions

\* the score a failed probe writes: the largest score
Worst == MaxScore
\* latencies a successful probe can measure
Latencies == 0..(MaxScore - 1)

\* what a poll of one copy direction can yield: still copying, Ok(n) at
\* end-of-stream, Err(TimedOut), Err(other)
IOEvents == {"pending", "eof", "timeout", "ioerr"}

VARIABLES
    score,      \* score[s]: the AtomicU64 of server s's ServerScore
    listener,   \* "accepting" while run() loops, "closed" once run() returned
    runResult,  \* "none" while run() loops, "Err" once it returned an error
    pc,         \* pc[i]: where session i's task stands
    svr,        \* svr[i]: the server handed to session i's task (0: none)
    picks,      \* picks[i]: pick_server() calls made for session i
    pickScore,  \* pickScore[i]: the score pick_server() read for svr[i]
    failed,     \* failed[i]: the call of session i that returned an error
    acceptFailed, \* listener.accept() has returned an error
    dials,      \* dials[i]: connect_proxy_server() calls of session i
    shakes,     \* shakes[i]: proxy_server_handshake() calls of session i
    dialed,     \* dialed[i]: the server session i connected to (0: none)
    shaken,     \* shaken[i]: the server session i shook hands with (0: none)
    rhalf,      \* rhalf[i]: the copy client -> upstream of session i
    whalf,      \* whalf[i]: the copy upstream -> client of session i
    other,      \* other[i]: what the direction that was not polled had to offer
    clientSock, \* clientSock[i]: "none", "open", "closed"
    result,     \* result[i]: what handle_tunnel_client returned
    closedLog,  \* closedLog[i]: direction named by the closing log line
    closeSev,   \* closeSev[i]: level of the closing log line
    reported,   \* reported[i]: the spawned task logged "TCP Tunnel client {err}"
    optLog,     \* the "Failed to set ..." lines of the latest handle_tunnel_client
    lastWritten, \* lastWritten[s]: the value of the latest set_score on s
    lastProbe   \* lastProbe[s]: how the latest probe of s ended ("none": no probe yet)

vars == <<score, listener, runResult, acceptFailed, pc, svr, picks, pickScore,
          failed, dials, shakes, shaken, dialed, rhalf, whalf, other, clientSock,
          result, closedLog, closeSev, reported, optLog, lastWritten,
          lastProbe>>

\* the variables of the scores and of the prober
scoreVars == <<score, lastWritten, lastProbe>>

\* the variables of the accept loop
loopVars == <<listener, runResult, acceptFailed>>

\* the variables of the sessions
sessVars == <<pc, svr, picks, pickScore, failed, dials, shakes, shaken, dialed, rhalf,
              whalf, other, clientSock, result, closedLog, closeSev, reported,
              optLog>>

\* ---------------------------------------------------------------- ServerScore

\* ServerScore::new with the score starting at the largest value
InitialScore_Worst == MaxScore

\* ServerScore::new: score: AtomicU64::new(0)
InitialScore == 0

\* PingServer::score: self.score.load(Acquire)
score_of(s) == score[s]

\* set_score with the value added to the score (fetch_add for store)
set_score_Add(s, v) == score' = [score EXCEPT ![s] = (@ + v) % (MaxScore + 1)]

\* set_score with the lower of the old and the new value kept (fetch_min
\* for store)
set_score_Min(s, v) == score' = [score EXCEPT ![s] = IF v < @ THEN v ELSE @]

\* PingServer::set_score: self.score.store(score, Release)
set_score(s, v) == score' = [score EXCEPT ![s] = v]

\* ---------------------------------------------------------------- balancer

\* one step of the scan over the pool: keep the best so far unless the
\* candidate k is strictly better
RECURSIVE Scan(_, _, _)
Scan(sc, k, best) ==
    IF k > NumServers THEN best
    ELSE Scan(sc, k + 1, IF sc[k] < sc[best] THEN k ELSE best)

\* LoadBalancer::pick_server: lowest score, first in configuration order
pick_server(sc) == Scan(sc, 2, 1)

Init ==
    /\ score = [s \in Servers |-> InitialScore]
    /\ listener = "accepting"
    /\ runResult = "none"
    /\ acceptFailed = FALSE
    /\ pc = [i \in Sessions |-> "Idle"]
    /\ svr = [i \in Sessions |-> 0]
    /\ picks = [i \in Sessions |-> 0]
    /\ pickScore = [i \in Sessions |-> 0]
    /\ failed = [i \in Sessions |-> "none"]
    /\ dials = [i \in Sessions |-> 0]
    /\ shakes = [i \in Sessions |-> 0]
    /\ dialed = [i \in Sessions |-> 0]
    /\ shaken = [i \in Sessions |-> 0]
    /\ rhalf = [i \in Sessions |-> "none"]
    /\ whalf = [i \in Sessions |-> "none"]
    /\ other = [i \in Sessions |-> "none"]
    /\ clientSock = [i \in Sessions |-> "none"]
    /\ result = [i \in Sessions |-> "none"]
    /\ closedLog = [i \in Sessions |-> "none"]
    /\ closeSev = [i \in Sessions |-> "none"]
    /\ reported = [i \in Sessions |-> FALSE]
    /\ optLog = {}
    /\ lastWritten = [s \in Servers |-> InitialScore]
    /\ lastProbe = [s \in Servers |-> "none"]

\* ---------------------------------------------------------------- prober

\* a probe of s that succeeded: the measured latency becomes the score
ProbeOk(s, v) ==
    /\ set_score(s, v)
    /\ lastWritten' = [lastWritten EXCEPT ![s] = v]
    /\ lastProbe' = [lastProbe EXCEPT ![s] = "ok"]
    /\ UNCHANGED loopVars
    /\ UNCHANGED sessVars

\* a probe of s that failed or timed out: the score becomes Worst
ProbeFail(s) ==
    /\ set_score(s, Worst)
    /\ lastWritten' = [lastWritten EXCEPT ![s] = Worst]
    /\ lastProbe' = [lastProbe EXCEPT ![s] = "fail"]
    /\ UNCHANGED loopVars
    /\ UNCHANGED sessVars

\* ---------------------------------------------------------------- run()

\* the connections accepted so far are sessions 1..Accepted
Accepted == Cardinality({i \in Sessions : pc[i] # "Idle"})

\* the frame of a turn of the accept loop
AcceptFrame ==
    UNCHANGED <<score, lastWritten, lastProbe, optLog, listener, runResult, acceptFailed, failed, dials,
                shakes, shaken, dialed, rhalf, whalf, other, result, closedLog,
                closeSev, reported>>

\* AcceptOk with the pool's first server used instead of pick_server()
AcceptOk_First ==
    /\ listener = "accepting"
    /\ Accepted < MaxSessions
    /\ LET i == Accepted + 1 IN
        /\ pc' = [pc EXCEPT ![i] = "Accepted"]
        /\ svr' = [svr EXCEPT ![i] = 1]
        /\ pickScore' = [pickScore EXCEPT ![i] = score_of(1)]
        /\ picks' = [picks EXCEPT ![i] = @ + 1]
        /\ clientSock' = [clientSock EXCEPT ![i] = "open"]
    /\ AcceptFrame

\* AcceptOk with the server picked once and kept for later connections
AcceptOk_Cached ==
    /\ listener = "accepting"
    /\ Accepted < MaxSessions
    /\ LET i == Accepted + 1
           s == IF i > 1 THEN svr[i - 1] ELSE pick_server(score)
       IN
        /\ pc' = [pc EXCEPT ![i] = "Accepted"]
        /\ svr' = [svr EXCEPT ![i] = s]
        /\ pickScore' = [pickScore EXCEPT ![i] = score_of(s)]
        /\ picks' = [picks EXCEPT ![i] = @ + 1]
        /\ clientSock' = [clientSock EXCEPT ![i] = "open"]
    /\ AcceptFrame

\* AcceptOk with the connection dropped when the picked server is scored
\* Worst
AcceptOk_SkipDead ==
    /\ listener = "accepting"
    /\ Accepted < MaxSessions
    /\ LET i == Accepted + 1
           s == pick_server(score)
       IN
        IF score_of(s) = Worst
        THEN /\ pc' = [pc EXCEPT ![i] = "Errored"]
             /\ clientSock' = [clientSock EXCEPT ![i] = "closed"]
             /\ picks' = [picks EXCEPT ![i] = @ + 1]
             /\ UNCHANGED <<svr, pickScore>>
        ELSE /\ pc' = [pc EXCEPT ![i] = "Accepted"]
             /\ svr' = [svr EXCEPT ![i] = s]
             /\ pickScore' = [pickScore EXCEPT ![i] = score_of(s)]
             /\ picks' = [picks EXCEPT ![i] = @ + 1]
             /\ clientSock' = [clientSock EXCEPT ![i] = "open"]
    /\ AcceptFrame

\* AcceptOk with the session awaited in the loop instead of spawned
AcceptOk_Serial ==
    /\ listener = "accepting"
    /\ Accepted < MaxSessions
    /\ \A j \in Sessions : pc[j] \in {"Idle", "Closed", "Errored"}
    /\ LET i == Accepted + 1 IN
        /\ pc' = [pc EXCEPT ![i] = "Accepted"]
        /\ svr' = [svr EXCEPT ![i] = pick_server(score)]
        /\ pickScore' = [pickScore EXCEPT ![i] = score_of(pick_server(score))]
        /\ picks' = [picks EXCEPT ![i] = @ + 1]
        /\ clientSock' = [clientSock EXCEPT ![i] = "open"]
    /\ AcceptFrame

\* one turn of the loop of run(): accept() returned a socket, pick_server()
\* chose the server, the task was spawned
AcceptOk ==
    /\ listener = "accepting"
    /\ Accepted < MaxSessions
    /\ LET i == Accepted + 1 IN
        /\ pc' = [pc EXCEPT ![i] = "Accepted"]
        /\ svr' = [svr EXCEPT ![i] = pick_server(score)]
        /\ pickScore' = [pickScore EXCEPT ![i] = score_of(pick_server(score))]
        /\ picks' = [picks EXCEPT ![i] = @ + 1]
        /\ clientSock' = [clientSock EXCEPT ![i] = "open"]
    /\ AcceptFrame

\* AcceptErr with the error logged and the loop continued
AcceptErr_Continue ==
    /\ listener = "accepting"
    /\ acceptFailed' = TRUE
    /\ UNCHANGED <<listener, runResult>>
    /\ UNCHANGED scoreVars
    /\ UNCHANGED sessVars

\* accept() returned an error: the ? operator makes run() return it
AcceptErr ==
    /\ listener = "accepting"
    /\ acceptFailed' = TRUE
    /\ listener' = "closed"
    /\ runResult' = "Err"
    /\ UNCHANGED scoreVars
    /\ UNCHANGED sessVars

\* ---------------------------------------------------------------- session

\* Return with every end of a task logged as an error of the client
Return_ReportAll(i, r) ==
    /\ result' = [result EXCEPT ![i] = r]
    /\ reported' = [reported EXCEPT ![i] = TRUE]
    /\ clientSock' = [clientSock EXCEPT ![i] = "closed"]

\* the task returned: the future owning the client socket is dropped and
\* the spawned block logs an Err
Return(i, r) ==
    /\ result' = [result EXCEPT ![i] = r]
    /\ reported' = [reported EXCEPT ![i] = (r = "Err")]
    /\ clientSock' = [clientSock EXCEPT ![i] = "closed"]

\* the frame of Start
StartFrame ==
    UNCHANGED <<score, lastWritten, lastProbe, listener, runResult,
                acceptFailed, svr, picks, pickScore, shakes, shaken, rhalf, whalf,
                other, closedLog, closeSev>>

\* the error lines of the socket options: set_keepalive failed, and
\* set_nodelay failed when no_delay is configured
OptErrors(kaOk, noDelay, ndOk) ==
    (IF kaOk THEN {} ELSE {"keepalive"}) \cup
    (IF noDelay /\ ~ndOk THEN {"nodelay"} ELSE {})

\* Start with a failure of set_keepalive or set_nodelay returned as the
\* session's error
Start_OptFatal(i, kaOk, noDelay, ndOk, peerOk) ==
    /\ pc[i] = "Accepted"
    /\ optLog' = OptErrors(kaOk, noDelay, ndOk)
    /\ IF OptErrors(kaOk, noDelay, ndOk) # {}
       THEN /\ failed' = [failed EXCEPT ![i] = "sockopt"]
            /\ pc' = [pc EXCEPT ![i] = "Errored"]
            /\ Return(i, "Err")
            /\ UNCHANGED <<dials, dialed>>
       ELSE IF peerOk
       THEN /\ pc' = [pc EXCEPT ![i] = "Connecting"]
            /\ dials' = [dials EXCEPT ![i] = @ + 1]
            /\ dialed' = [dialed EXCEPT ![i] = svr[i]]
            /\ UNCHANGED <<result, reported, clientSock, failed>>
       ELSE /\ failed' = [failed EXCEPT ![i] = "peer_addr"]
            /\ pc' = [pc EXCEPT ![i] = "Errored"]
            /\ Return(i, "Err")
            /\ UNCHANGED <<dials, dialed>>
    /\ StartFrame

\* Start with the server picked again by the task when it dials
Start_Repick(i, kaOk, noDelay, ndOk, peerOk) ==
    /\ pc[i] = "Accepted"
    /\ optLog' = OptErrors(kaOk, noDelay, ndOk)
    /\ IF peerOk
       THEN /\ pc' = [pc EXCEPT ![i] = "Connecting"]
            /\ dials' = [dials EXCEPT ![i] = @ + 1]
            /\ dialed' = [dialed EXCEPT ![i] = pick_server(score)]
            /\ UNCHANGED <<result, reported, clientSock, failed>>
       ELSE /\ failed' = [failed EXCEPT ![i] = "peer_addr"]
            /\ pc' = [pc EXCEPT ![i] = "Errored"]
            /\ Return(i, "Err")
            /\ UNCHANGED <<dials, dialed>>
    /\ StartFrame

\* Start with connect_proxy_server called before peer_addr() is read
Start_DialFirst(i, kaOk, noDelay, ndOk, peerOk) ==
    /\ pc[i] = "Accepted"
    /\ optLog' = OptErrors(kaOk, noDelay, ndOk)
    /\ dials' = [dials EXCEPT ![i] = @ + 1]
    /\ dialed' = [dialed EXCEPT ![i] = svr[i]]
    /\ IF peerOk
       THEN /\ pc' = [pc EXCEPT ![i] = "Connecting"]
            /\ UNCHANGED <<result, reported, clientSock, failed>>
       ELSE /\ failed' = [failed EXCEPT ![i] = "peer_addr"]
            /\ pc' = [pc EXCEPT ![i] = "Errored"]
            /\ Return(i, "Err")
    /\ StartFrame

\* handle_tunnel_client up to the first await: set_keepalive (kaOk) and,
\* when no_delay is configured (noDelay), set_nodelay (ndOk), whose errors
\* are logged only; peer_addr()? (peerOk); then connect_proxy_server is
\* called with the server the task was given
Start(i, kaOk, noDelay, ndOk, peerOk) ==
    /\ pc[i] = "Accepted"
    /\ optLog' = OptErrors(kaOk, noDelay, ndOk)
    /\ IF peerOk
       THEN /\ pc' = [pc EXCEPT ![i] = "Connecting"]
            /\ dials' = [dials EXCEPT ![i] = @ + 1]
            /\ dialed' = [dialed EXCEPT ![i] = svr[i]]
            /\ UNCHANGED <<result, reported, clientSock>>
            /\ UNCHANGED failed
       ELSE /\ failed' = [failed EXCEPT ![i] = "peer_addr"]
            /\ pc' = [pc EXCEPT ![i] = "Errored"]
            /\ Return(i, "Err")
            /\ UNCHANGED <<dials, dialed>>
    /\ StartFrame

\* the frame of ConnectDone
ConnectFrame ==
    UNCHANGED <<score, lastWritten, lastProbe, optLog, acceptFailed, svr, picks, pickScore, rhalf, whalf,
                other, closedLog, closeSev>>

\* ConnectDone with the session's error returned out of the accept loop
ConnectDone_Propagate(i, ok) ==
    /\ pc[i] = "Connecting"
    /\ IF ok
       THEN /\ pc' = [pc EXCEPT ![i] = "Handshaking"]
            /\ shakes' = [shakes EXCEPT ![i] = @ + 1]
            /\ shaken' = [shaken EXCEPT ![i] = svr[i]]
            /\ UNCHANGED <<result, reported, clientSock, failed, listener,
                           runResult>>
       ELSE /\ failed' = [failed EXCEPT ![i] = "connect"]
            /\ pc' = [pc EXCEPT ![i] = "Errored"]
            /\ Return(i, "Err")
            /\ listener' = "closed"
            /\ runResult' = "Err"
            /\ UNCHANGED <<shakes, shaken>>
    /\ UNCHANGED <<dials, dialed>>
    /\ ConnectFrame

\* ConnectDone with a failed connect dialled once more, at the next server
ConnectDone_Retry(i, ok) ==
    /\ pc[i] = "Connecting"
    /\ IF ok
       THEN /\ pc' = [pc EXCEPT ![i] = "Handshaking"]
            /\ shakes' = [shakes EXCEPT ![i] = @ + 1]
            /\ shaken' = [shaken EXCEPT ![i] = svr[i]]
            /\ UNCHANGED <<result, reported, clientSock, failed, dials, dialed>>
       ELSE IF dials[i] < 2
       THEN /\ failed' = [failed EXCEPT ![i] = "connect"]
            /\ dials' = [dials EXCEPT ![i] = @ + 1]
            /\ dialed' = [dialed EXCEPT ![i] = (@ % NumServers) + 1]
            /\ UNCHANGED <<pc, result, reported, clientSock, shakes, shaken>>
       ELSE /\ failed' = [failed EXCEPT ![i] = "connect"]
            /\ pc' = [pc EXCEPT ![i] = "Errored"]
            /\ Return(i, "Err")
            /\ UNCHANGED <<shakes, shaken, dials, dialed>>
    /\ UNCHANGED <<listener, runResult>>
    /\ ConnectFrame

\* ConnectDone with the relay started on the connected stream without the
\* handshake
ConnectDone_NoShake(i, ok) ==
    /\ pc[i] = "Connecting"
    /\ IF ok
       THEN /\ pc' = [pc EXCEPT ![i] = "Relaying"]
            /\ UNCHANGED <<result, reported, clientSock, failed>>
       ELSE /\ failed' = [failed EXCEPT ![i] = "connect"]
            /\ pc' = [pc EXCEPT ![i] = "Errored"]
            /\ Return(i, "Err")
    /\ UNCHANGED <<listener, runResult, dials, dialed, shakes, shaken>>
    /\ ConnectFrame

\* connect_proxy_server completed: Ok goes on to the handshake, Err is
\* logged and returned
ConnectDone(i, ok) ==
    /\ pc[i] = "Connecting"
    /\ IF ok
       THEN /\ pc' = [pc EXCEPT ![i] = "Handshaking"]
            /\ shakes' = [shakes EXCEPT ![i] = @ + 1]
            /\ shaken' = [shaken EXCEPT ![i] = svr[i]]
            /\ UNCHANGED <<result, reported, clientSock>>
            /\ UNCHANGED failed
       ELSE /\ failed' = [failed EXCEPT ![i] = "connect"]
            /\ pc' = [pc EXCEPT ![i] = "Errored"]
            /\ Return(i, "Err")
            /\ UNCHANGED <<shakes, shaken>>
    /\ UNCHANGED <<listener, runResult, dials, dialed>>
    /\ ConnectFrame

\* the frame of HandshakeDone
HandshakeFrame ==
    UNCHANGED <<score, lastWritten, lastProbe, optLog, listener, runResult, acceptFailed, svr, picks,
                pickScore, dials, shakes, shaken, dialed, other, closedLog, closeSev>>

\* HandshakeDone with a handshake error logged instead of returned
HandshakeDone_Ignore(i, ok) ==
    /\ pc[i] = "Handshaking"
    /\ failed' = [failed EXCEPT ![i] = IF ok THEN @ ELSE "handshake"]
    /\ pc' = [pc EXCEPT ![i] = "Relaying"]
    /\ rhalf' = [rhalf EXCEPT ![i] = "created"]
    /\ whalf' = [whalf EXCEPT ![i] = "created"]
    /\ UNCHANGED <<result, reported, clientSock>>
    /\ HandshakeFrame

\* proxy_server_handshake completed: Ok splits both streams and creates
\* the two copies, Err is returned by the ? operator. The copies are lazy:
\* they run only when the select polls them, which is Poll
HandshakeDone(i, ok) ==
    /\ pc[i] = "Handshaking"
    /\ IF ok
       THEN /\ pc' = [pc EXCEPT ![i] = "Relaying"]
            /\ rhalf' = [rhalf EXCEPT ![i] = "created"]
            /\ whalf' = [whalf EXCEPT ![i] = "created"]
            /\ UNCHANGED <<result, reported, clientSock>>
            /\ UNCHANGED failed
       ELSE /\ failed' = [failed EXCEPT ![i] = "handshake"]
            /\ pc' = [pc EXCEPT ![i] = "Errored"]
            /\ Return(i, "Err")
            /\ UNCHANGED <<rhalf, whalf>>
    /\ HandshakeFrame

\* level of the closing line: trace for Ok and for ErrorKind::TimedOut,
\* error for any other error
Severity(ev) == IF ev = "ioerr" THEN "error" ELSE "trace"

\* the outcomes with which a copy finishes
Finished == {"eof", "timeout", "ioerr"}

\* the frame of Poll
PollFrame ==
    UNCHANGED <<score, lastWritten, lastProbe, optLog, listener, runResult, acceptFailed, svr, picks,
                pickScore, failed, dials, shakes, shaken, dialed>>

\* Poll with both copies awaited (a join in place of the select): the
\* session ends when the second copy has finished too
Poll_Join(i, rIn, wIn) ==
    /\ pc[i] = "Relaying"
    /\ LET r == IF rhalf[i] \in Finished THEN rhalf[i] ELSE rIn
           w == IF whalf[i] \in Finished THEN whalf[i] ELSE wIn
       IN
        /\ rhalf' = [rhalf EXCEPT ![i] = r]
        /\ whalf' = [whalf EXCEPT ![i] = w]
        /\ IF r # "pending" /\ w # "pending"
           THEN /\ other' = [other EXCEPT ![i] = "ready"]
                /\ closedLog' = [closedLog EXCEPT ![i] = "client->server"]
                /\ closeSev' = [closeSev EXCEPT ![i] = Severity(r)]
                /\ pc' = [pc EXCEPT ![i] = "Closed"]
                /\ Return(i, "Ok")
           ELSE UNCHANGED <<other, closedLog, closeSev, pc, result, reported,
                            clientSock>>
    /\ PollFrame

\* Poll with an error that is not a timeout returned to the caller
Poll_ErrReturns(i, rIn, wIn) ==
    /\ pc[i] = "Relaying"
    /\ LET ev == IF rIn # "pending" THEN rIn ELSE wIn IN
        IF ev = "pending"
        THEN /\ rhalf' = [rhalf EXCEPT ![i] = "pending"]
             /\ whalf' = [whalf EXCEPT ![i] = "pending"]
             /\ UNCHANGED <<other, closedLog, closeSev, pc, result, reported,
                            clientSock>>
        ELSE /\ rhalf' = [rhalf EXCEPT ![i] = IF rIn # "pending" THEN rIn ELSE "dropped"]
             /\ whalf' = [whalf EXCEPT ![i] = IF rIn # "pending" THEN "dropped" ELSE wIn]
             /\ other' = [other EXCEPT ![i] =
                    IF rIn # "pending" /\ wIn # "pending" THEN "ready" ELSE "pending"]
             /\ closedLog' = [closedLog EXCEPT ![i] =
                    IF rIn # "pending" THEN "client->server" ELSE "client<-server"]
             /\ closeSev' = [closeSev EXCEPT ![i] = Severity(ev)]
             /\ pc' = [pc EXCEPT ![i] = IF ev = "ioerr" THEN "Errored" ELSE "Closed"]
             /\ Return(i, IF ev = "ioerr" THEN "Err" ELSE "Ok")
    /\ PollFrame

\* Poll with the closing lines of the two directions exchanged
Poll_SwapLog(i, rIn, wIn) ==
    /\ pc[i] = "Relaying"
    /\ IF rIn # "pending"
       THEN /\ rhalf' = [rhalf EXCEPT ![i] = rIn]
            /\ whalf' = [whalf EXCEPT ![i] = "dropped"]
            /\ other' = [other EXCEPT ![i] = IF wIn = "pending" THEN "pending" ELSE "ready"]
            /\ closedLog' = [closedLog EXCEPT ![i] = "client<-server"]
            /\ closeSev' = [closeSev EXCEPT ![i] = Severity(rIn)]
            /\ pc' = [pc EXCEPT ![i] = "Closed"]
            /\ Return(i, "Ok")
       ELSE IF wIn # "pending"
       THEN /\ rhalf' = [rhalf EXCEPT ![i] = "dropped"]
            /\ whalf' = [whalf EXCEPT ![i] = wIn]
            /\ other' = [other EXCEPT ![i] = "pending"]
            /\ closedLog' = [closedLog EXCEPT ![i] = "client->server"]
            /\ closeSev' = [closeSev EXCEPT ![i] = Severity(wIn)]
            /\ pc' = [pc EXCEPT ![i] = "Closed"]
            /\ Return(i, "Ok")
       ELSE /\ rhalf' = [rhalf EXCEPT ![i] = "pending"]
            /\ whalf' = [whalf EXCEPT ![i] = "pending"]
            /\ UNCHANGED <<other, closedLog, closeSev, pc, result, reported,
                           clientSock>>
    /\ PollFrame

\* Poll with whalf polled before rhalf (select(whalf, rhalf))
Poll_RightFirst(i, rIn, wIn) ==
    /\ pc[i] = "Relaying"
    /\ IF wIn # "pending"
       THEN /\ rhalf' = [rhalf EXCEPT ![i] = "dropped"]
            /\ whalf' = [whalf EXCEPT ![i] = wIn]
            /\ other' = [other EXCEPT ![i] = IF rIn = "pending" THEN "pending" ELSE "ready"]
            /\ closedLog' = [closedLog EXCEPT ![i] = "client<-server"]
            /\ closeSev' = [closeSev EXCEPT ![i] = Severity(wIn)]
            /\ pc' = [pc EXCEPT ![i] = "Closed"]
            /\ Return(i, "Ok")
       ELSE IF rIn # "pending"
       THEN /\ rhalf' = [rhalf EXCEPT ![i] = rIn]
            /\ whalf' = [whalf EXCEPT ![i] = "dropped"]
            /\ other' = [other EXCEPT ![i] = "pending"]
            /\ closedLog' = [closedLog EXCEPT ![i] = "client->server"]
            /\ closeSev' = [closeSev EXCEPT ![i] = Severity(rIn)]
            /\ pc' = [pc EXCEPT ![i] = "Closed"]
            /\ Return(i, "Ok")
       ELSE /\ rhalf' = [rhalf EXCEPT ![i] = "pending"]
            /\ whalf' = [whalf EXCEPT ![i] = "pending"]
            /\ UNCHANGED <<other, closedLog, closeSev, pc, result, reported,
                           clientSock>>
    /\ PollFrame

\* one poll of future::select(rhalf, whalf): rhalf is polled first and
\* whalf only if rhalf is pending; the first that is ready ends the
\* session with Ok(()), the other copy is dropped
Poll(i, rIn, wIn) ==
    /\ pc[i] = "Relaying"
    /\ IF rIn # "pending"
       THEN /\ rhalf' = [rhalf EXCEPT ![i] = rIn]
            /\ whalf' = [whalf EXCEPT ![i] = "dropped"]
            /\ other' = [other EXCEPT ![i] = IF wIn = "pending" THEN "pending" ELSE "ready"]
            /\ closedLog' = [closedLog EXCEPT ![i] = "client->server"]
            /\ closeSev' = [closeSev EXCEPT ![i] = Severity(rIn)]
            /\ pc' = [pc EXCEPT ![i] = "Closed"]
            /\ Return(i, "Ok")
       ELSE IF wIn # "pending"
       THEN /\ rhalf' = [rhalf EXCEPT ![i] = "dropped"]
            /\ whalf' = [whalf EXCEPT ![i] = wIn]
            /\ other' = [other EXCEPT ![i] = "pending"]
            /\ closedLog' = [closedLog EXCEPT ![i] = "client<-server"]
            /\ closeSev' = [closeSev EXCEPT ![i] = Severity(wIn)]
            /\ pc' = [pc EXCEPT ![i] = "Closed"]
            /\ Return(i, "Ok")
       ELSE /\ rhalf' = [rhalf EXCEPT ![i] = "pending"]
            /\ whalf' = [whalf EXCEPT ![i] = "pending"]
            /\ UNCHANGED <<other, closedLog, closeSev, pc, result, reported,
                           clientSock>>
    /\ PollFrame

\* ---------------------------------------------------------------- system

Prober ==
    \/ \E s \in Servers, v \in Latencies : ProbeOk(s, v)
    \/ \E s \in Servers : ProbeFail(s)

Listener == AcceptOk \/ AcceptErr

Session(i) ==
    \/ \E kaOk, noDelay, ndOk, peerOk \in BOOLEAN : Start(i, kaOk, noDelay, ndOk, peerOk)
    \/ \E ok \in BOOLEAN : ConnectDone(i, ok)
    \/ \E ok \in BOOLEAN : HandshakeDone(i, ok)
    \/ \E rIn, wIn \in IOEvents : Poll(i, rIn, wIn)

Next ==
    \/ Prober
    \/ Listener
    \/ \E i \in Sessions : Session(i)

\* the whole program: prober, accept loop and sessions
Spec == Init /\ [][Next]_vars

\* the balancer and the accept loop: the spawned tasks are not scheduled
NextBalancer == Prober \/ Listener

SpecBalancer == Init /\ [][NextBalancer]_vars

\* the accept loop and the sessions while no probe completes
NextTunnel == Listener \/ \E i \in Sessions : Session(i)

SpecTunnel == Init /\ [][NextTunnel]_vars

\* a session up to its connect: the task starts and dials
Dial(i) == \E noDelay \in BOOLEAN : Start(i, TRUE, noDelay, TRUE, TRUE)

\* the prober, the accept loop and the sessions up to their connect
NextDial == Prober \/ AcceptOk \/ \E i \in Sessions : Dial(i)

SpecDial == Init /\ [][NextDial]_vars

\* ---------------------------------------------------------------- properties

\* session i is spawned in this step
AcceptStep(i) == pc[i] = "Idle" /\ pc'[i] # "Idle"

\* s has the lowest score of sc and is the first server with that score
IsMinFirst(s, sc) ==
    /\ \A t \in Servers : sc[s] <= sc[t]
    /\ \A t \in Servers : t < s => sc[t] > sc[s]

\* s alone has the lowest score of sc
StrictMin(s, sc) == \A t \in Servers \ {s} : sc[s] < sc[t]

AllWorst == \A s \in Servers : score[s] = Worst

\* C1: whatever the scores are, the server picked for a newly accepted
\* connection has the minimum score of the pool and is the first server in
\* configuration order with that score; a pick made while the result of the
\* previous pick still is that server returns it again.
C1_PickMinFirst ==
    [][\A i \in Sessions : AcceptStep(i) =>
          /\ svr'[i] \in Servers
          /\ IsMinFirst(svr'[i], score)
          /\ pickScore'[i] = score[svr'[i]]
          /\ (i > 1 /\ IsMinFirst(svr[i - 1], score)) => svr'[i] = svr[i - 1]]_vars

\* the second pick took the first server of a tie that still stands, the
\* first pick took server 2 when it was strictly better
C1_Witness ==
    /\ MaxSessions >= 2 /\ NumServers >= 2
    /\ pc[1] # "Idle" /\ pc[2] # "Idle"
    /\ svr[1] = 2
    /\ svr[2] = 1
    /\ score[1] = score[2]
    /\ pickScore[2] = score[1]

\* C2: in the state a set_score leaves, with one server the strict minimum
\* of the pool, the next pick_server() returns that server and has read its
\* current score, whatever earlier picks returned.
C2_NextPickIsNewMin ==
    [][\A i \in Sessions : \A s \in Servers :
          (AcceptStep(i) /\ StrictMin(s, score)) =>
              (svr'[i] = s /\ pickScore'[i] = score[s])]_vars

\* the earlier pick returned server 1; server 2 then became the strict
\* minimum and the next pick returned it
C2_Witness ==
    /\ MaxSessions >= 2 /\ NumServers >= 2
    /\ pc[2] # "Idle"
    /\ svr[1] = 1
    /\ svr[2] = 2
    /\ StrictMin(2, score)
    /\ pickScore[2] = score[2]

\* C3: with every score at Worst the accept loop is not blocked, and a
\* connection accepted then gets a server of the pool (scored Worst) and a
\* spawned session.
C3_OutageStillPicks ==
    /\ [](AllWorst /\ listener = "accepting" /\ Accepted < MaxSessions
            => ENABLED AcceptOk)
    /\ [][\A i \in Sessions : (AllWorst /\ AcceptStep(i)) =>
            /\ pc'[i] = "Accepted"
            /\ svr'[i] \in Servers
            /\ pickScore'[i] = Worst
            /\ picks'[i] = 1
            /\ clientSock'[i] = "open"]_vars

\* a session was spawned with a server whose score read Worst, the pool's
\* minimum at that pick
C3_Witness ==
    \E i \in Sessions :
        /\ pc[i] = "Accepted"
        /\ svr[i] \in Servers
        /\ pickScore[i] = Worst

\* C4: once either copy has finished (end-of-stream, timeout or other
\* error) the session is closed and has returned, and the other copy has
\* been dropped: no state has a finished copy in a session still relaying.
C4_FirstFinishedEnds ==
    \A i \in Sessions :
        /\ (rhalf[i] \in Finished \/ whalf[i] \in Finished) =>
              /\ pc[i] = "Closed"
              /\ result[i] = "Ok"
              /\ clientSock[i] = "closed"
        /\ rhalf[i] \in Finished => whalf[i] = "dropped"
        /\ whalf[i] \in Finished => rhalf[i] = "dropped"
        /\ pc[i] = "Relaying" =>
              (rhalf[i] \in {"created", "pending"} /\ whalf[i] = rhalf[i])

\* client -> upstream reached end-of-stream while upstream -> client was
\* still copying: the session closed and that copy was dropped
C4_Witness ==
    \E i \in Sessions :
        /\ pc[i] = "Closed"
        /\ rhalf[i] = "eof"
        /\ whalf[i] = "dropped"
        /\ other[i] = "pending"

\* C5: a session whose connect or handshake failed is Errored with result
\* Err, neither copy was ever created, nothing was logged as a relay
\* closure, and its client socket is closed.
C5_FailureBeforeRelay ==
    \A i \in Sessions :
        failed[i] \in {"connect", "handshake"} =>
            /\ pc[i] = "Errored"
            /\ result[i] = "Err"
            /\ rhalf[i] = "none"
            /\ whalf[i] = "none"
            /\ closedLog[i] = "none"
            /\ clientSock[i] = "closed"

\* one session failed at connect and another at the handshake
C5_Witness ==
    \E i, j \in Sessions :
        /\ failed[i] = "connect" /\ pc[i] = "Errored"
        /\ failed[j] = "handshake" /\ pc[j] = "Errored"

\* all the state of session j
Sess(j) ==
    <<pc[j], svr[j], picks[j], pickScore[j], failed[j], dials[j], shakes[j], shaken[j],
      dialed[j], rhalf[j], whalf[j], other[j], clientSock[j], result[j],
      closedLog[j], closeSev[j], reported[j]>>

\* session i has failed: a call returned an error or a copy ended in one
HasFailed(i) ==
    \/ failed[i] # "none"
    \/ rhalf[i] \in {"timeout", "ioerr"}
    \/ whalf[i] \in {"timeout", "ioerr"}

\* the step session j's task takes next is enabled
CanProceed(j) ==
    /\ pc[j] = "Accepted" => ENABLED Start(j, TRUE, TRUE, TRUE, TRUE)
    /\ pc[j] = "Connecting" => ENABLED ConnectDone(j, TRUE)
    /\ pc[j] = "Handshaking" => ENABLED HandshakeDone(j, TRUE)
    /\ pc[j] = "Relaying" => ENABLED Poll(j, "eof", "pending")

\* C6: the step in which a session fails leaves the accept loop and every
\* other session as they were, and in every state with a failed session
\* the listener can still accept and every other session can take its next
\* step.
C6_FailureIsolated ==
    /\ [][\A i \in Sessions : (~HasFailed(i) /\ HasFailed(i)') =>
            /\ listener' = listener
            /\ runResult' = runResult
            /\ acceptFailed' = acceptFailed
            /\ \A j \in Sessions \ {i} : Sess(j)' = Sess(j)]_vars
    /\ [](\A i \in Sessions : HasFailed(i) =>
            /\ (~acceptFailed /\ Accepted < MaxSessions) => ENABLED AcceptOk
            /\ ~acceptFailed => listener = "accepting"
            /\ \A j \in Sessions \ {i} : CanProceed(j))

\* one session failed at connect while another is relaying and the
\* listener is accepting
C6_Witness ==
    \E i, j \in Sessions :
        /\ failed[i] = "connect"
        /\ pc[j] = "Relaying"
        /\ listener = "accepting"

\* C7: while the listener is accepting, accepting the next connection is
\* enabled whatever the states of the sessions spawned earlier, and the
\* step that accepts one leaves the listener accepting.
C7_AcceptNeverWaits ==
    /\ []((listener = "accepting" /\ Accepted < MaxSessions) => ENABLED AcceptOk)
    /\ [][\A i \in Sessions : AcceptStep(i) =>
            (listener' = "accepting" /\ pc'[i] = "Accepted")]_vars

\* a connection was accepted after one that is still relaying
C7_Witness ==
    /\ MaxSessions >= 2
    /\ pc[1] = "Relaying"
    /\ pc[2] = "Accepted"

\* C8: a session has at most one pick, one connect and one handshake, and
\* once its connect or handshake has failed nothing of it is dialled or
\* picked again.
C8_SingleShot ==
    /\ [](\A i \in Sessions :
            /\ picks[i] <= 1 /\ dials[i] <= 1 /\ shakes[i] <= 1
            /\ dials[i] = 1 => dialed[i] = svr[i])
    /\ [][\A i \in Sessions : failed[i] # "none" =>
            /\ dials'[i] = dials[i]
            /\ dialed'[i] = dialed[i]
            /\ picks'[i] = picks[i]
            /\ svr'[i] = svr[i]
            /\ shakes'[i] = shakes[i]]_vars

\* a session whose connect failed after its one pick and one dial
C8_Witness ==
    \E i \in Sessions :
        /\ failed[i] = "connect"
        /\ picks[i] = 1
        /\ dials[i] = 1
        /\ pc[i] = "Errored"

\* the copy of session i that finished ended in an error
ErrClosed(i) ==
    \/ rhalf[i] \in {"timeout", "ioerr"}
    \/ whalf[i] \in {"timeout", "ioerr"}

\* the error the finished copy of session i ended in
CloseErr(i) == IF rhalf[i] \in {"timeout", "ioerr"} THEN rhalf[i] ELSE whalf[i]

\* what a session ended in, apart from its log lines
Outcome(i) == <<pc[i], result[i], clientSock[i], reported[i], failed[i]>>

\* C9: sessions ended by a timeout and sessions ended by another I/O error,
\* on either direction, have the same outcome (Closed, Ok, socket closed,
\* nothing reported); the closing line is at trace for a timeout and at
\* error otherwise.
C9_TimeoutLikeError ==
    /\ \A i \in Sessions : ErrClosed(i) =>
          /\ Outcome(i) = <<"Closed", "Ok", "closed", FALSE, "none">>
          /\ closeSev[i] = (IF CloseErr(i) = "timeout" THEN "trace" ELSE "error")
    /\ \A i, j \in Sessions : (ErrClosed(i) /\ ErrClosed(j)) =>
          Outcome(i) = Outcome(j)

\* one session ended by a timeout client -> upstream, another by an I/O
\* error upstream -> client
C9_Witness ==
    \E i, j \in Sessions :
        /\ rhalf[i] = "timeout" /\ closeSev[i] = "trace"
        /\ whalf[j] = "ioerr" /\ closeSev[j] = "error"

\* C10: once accept() has failed, run() has returned Err, the listener is
\* closed, accepting is disabled, and no session is spawned in any later
\* step.
C10_AcceptErrorStops ==
    /\ [](acceptFailed =>
            /\ listener = "closed"
            /\ runResult = "Err"
            /\ ~ENABLED AcceptOk)
    /\ [](runResult = "Err" => acceptFailed)
    /\ [][acceptFailed =>
            /\ listener' = "closed"
            /\ \A i \in Sessions : ~AcceptStep(i)]_vars

\* accept() failed after a first connection and before a second one
C10_Witness ==
    /\ acceptFailed
    /\ Accepted >= 1
    /\ Accepted < MaxSessions
    /\ runResult = "Err"

\* C11: whether set_keepalive fails or not, and whether set_nodelay fails,
\* succeeds or is not configured, a session whose peer address can be read
\* goes on to dial the server it was given: every such combination is
\* enabled from Accepted and leads to Connecting with one dial.
C11_OptionsNonFatal ==
    /\ [](\A i \in Sessions : pc[i] = "Accepted" =>
            \A kaOk, noDelay, ndOk \in BOOLEAN :
                ENABLED (/\ Start(i, kaOk, noDelay, ndOk, TRUE)
                         /\ pc'[i] = "Connecting"
                         /\ dials'[i] = 1
                         /\ dialed'[i] = svr[i]))
    /\ [][\A i \in Sessions :
            (pc[i] = "Accepted" /\ pc'[i] # "Accepted" /\ failed'[i] # "peer_addr") =>
                /\ pc'[i] = "Connecting"
                /\ dials'[i] = 1
                /\ dialed'[i] = svr[i]]_vars

\* the only session so far logged both option failures and is connecting
C11_Witness ==
    /\ Accepted = 1
    /\ optLog = {"keepalive", "nodelay"}
    /\ pc[1] = "Connecting"
    /\ dials[1] = 1

\* C12: in every state the score a load returns for a server is the value
\* of the latest set_score on it, and the initial value while no probe of
\* it has completed; the score a pick read for the server it returned is
\* that value: no read returns a value that was never written.
C12_ReadsLatestWrite ==
    /\ [](\A s \in Servers :
            /\ score_of(s) = lastWritten[s]
            /\ lastProbe[s] = "none" => score_of(s) = InitialScore)
    /\ [][\A i \in Sessions : AcceptStep(i) =>
            pickScore'[i] = lastWritten[svr'[i]]]_vars

\* a pick read, for a server that was probed, the non-initial value the
\* latest probe wrote
C12_Witness ==
    \E i \in Sessions :
        /\ pc[i] # "Idle"
        /\ lastProbe[svr[i]] = "ok"
        /\ pickScore[i] # InitialScore
        /\ pickScore[i] = lastWritten[svr[i]]
        /\ score_of(svr[i]) = pickScore[i]

NonTerminal == {"Accepted", "Connecting", "Handshaking", "Relaying"}

Terminal == {"Closed", "Errored"}

\* the forward steps of a session that end in Closed
Forward ==
    {<<"Idle", "Accepted">>, <<"Accepted", "Connecting">>,
     <<"Connecting", "Handshaking">>, <<"Handshaking", "Relaying">>,
     <<"Relaying", "Closed">>}

\* a session stays where it is, takes a forward step, or fails from one
\* of the states in from
Edge(a, b, from) ==
    \/ a = b
    \/ <<a, b>> \in Forward
    \/ (a \in from /\ b = "Errored")

\* a session in Relaying has connected and shaken hands once, with success
RelayAfterHandshake(i) ==
    pc[i] = "Relaying" =>
        (dials[i] = 1 /\ shakes[i] = 1 /\ failed[i] = "none" /\ rhalf[i] # "none")

\* session i can fail in its next step
CanFail(i) == ENABLED (Session(i) /\ pc'[i] = "Errored")

\* C13 as claimed: the order Accepted, Connecting, Handshaking, Relaying,
\* Closed is kept, Relaying comes after a successful connect and handshake,
\* the terminal states are not left, and Errored can be entered from every
\* non-terminal state.
C13_ErroredFromAny ==
    \A i \in Sessions :
        /\ ~ENABLED (NextTunnel /\ ~Edge(pc[i], pc'[i], NonTerminal))
        /\ RelayAfterHandshake(i)
        /\ pc[i] \in NonTerminal => CanFail(i)

\* C13, amended: the order Accepted, Connecting, Handshaking, Relaying,
\* Closed is kept with no state skipped or revisited, Relaying comes after
\* a successful connect and handshake, the terminal states are not left,
\* and Errored can be entered from Accepted, Connecting and Handshaking but
\* not from Relaying, whose only exit is Closed.
C13_StateOrder ==
    /\ [][\A i \in Sessions :
            Edge(pc[i], pc'[i], NonTerminal \ {"Relaying"})]_vars
    /\ [](\A i \in Sessions :
            /\ RelayAfterHandshake(i)
            /\ pc[i] \in NonTerminal \ {"Relaying"} => CanFail(i)
            /\ pc[i] = "Relaying" =>
                  /\ ~CanFail(i)
                  /\ ENABLED (Session(i) /\ pc'[i] = "Closed")
            /\ pc[i] \in Terminal => ~ENABLED (Session(i)))

\* one session went through the whole order and was closed by an I/O error
\* of a copy, another one ended Errored at the handshake
C13_Witness ==
    \E i, j \in Sessions :
        /\ pc[i] = "Closed"
        /\ dials[i] = 1 /\ shakes[i] = 1
        /\ rhalf[i] = "ioerr"
        /\ pc[j] = "Errored"
        /\ failed[j] = "handshake"

\* the probe of s that completes in this step failed
ProbeFailStep(s) == lastProbe'[s] = "fail" /\ lastProbe'[s] # lastProbe[s]

\* C14: a server whose latest probe failed is scored Worst, a pick never
\* returns it while another server has a better score, and the step in
\* which a probe fails changes nothing of the accept loop or of a session.
C14_FailedProbeDemotes ==
    /\ [](\A s \in Servers : lastProbe[s] = "fail" => score_of(s) = Worst)
    /\ [][\A i \in Sessions : \A s \in Servers :
            (/\ AcceptStep(i)
             /\ lastProbe[s] = "fail"
             /\ \E t \in Servers : score[t] < Worst) => svr'[i] # s]_vars
    /\ [][(\E s \in Servers : ProbeFailStep(s)) =>
            (UNCHANGED loopVars /\ UNCHANGED sessVars)]_vars

\* the probe of server 1 failed after a better score and the pick that
\* followed returned server 2, scored better than Worst
C14_Witness ==
    /\ NumServers >= 2
    /\ lastProbe[1] = "fail"
    /\ score[1] = Worst
    /\ listener = "accepting"
    /\ \E i \in Sessions :
        /\ pc[i] = "Accepted"
        /\ svr[i] = 2
        /\ pickScore[i] < Worst
        /\ pickScore[i] = score[2]

\* C15: the closing line names client -> upstream only in a session whose
\* copy client -> upstream has finished, and upstream -> client only in a
\* session whose copy upstream -> client has finished; the copy of the
\* other direction was dropped unfinished, and a session has a closing
\* line, for one direction, exactly when it is Closed.
C15_ReportedDirectionFinished ==
    \A i \in Sessions :
        /\ closedLog[i] \in {"none", "client->server", "client<-server"}
        /\ closedLog[i] = "client->server" =>
              (rhalf[i] \in Finished /\ whalf[i] = "dropped")
        /\ closedLog[i] = "client<-server" =>
              (whalf[i] \in Finished /\ rhalf[i] = "dropped")
        /\ (closedLog[i] # "none") <=> (pc[i] = "Closed")

\* one session was closed by client -> upstream, another by upstream ->
\* client
C15_Witness ==
    \E i, j \in Sessions :
        /\ closedLog[i] = "client->server" /\ rhalf[i] \in Finished
        /\ closedLog[j] = "client<-server" /\ whalf[j] \in Finished

\* the calls whose error ends a session before the relay
PreRelay == {"peer_addr", "connect", "handshake"}

\* C16: a session has returned Err exactly when peer_addr, the connect or
\* the handshake failed; a session that created its copies returns Ok
\* whatever ended the relay; the spawned task has logged the session's
\* error exactly for those failures before the relay.
C16_ErrOnlyBeforeRelay ==
    \A i \in Sessions :
        /\ (result[i] = "Err") <=> (failed[i] \in PreRelay)
        /\ failed[i] \in PreRelay \cup {"none"}
        /\ (rhalf[i] # "none" /\ result[i] # "none") => result[i] = "Ok"
        /\ reported[i] <=> (failed[i] \in PreRelay)
        /\ failed[i] \in PreRelay => (rhalf[i] = "none" /\ whalf[i] = "none")

\* one session was closed by an I/O error of a copy and returned Ok with
\* nothing reported, another failed at the handshake and was reported
C16_Witness ==
    \E i, j \in Sessions :
        /\ rhalf[i] = "ioerr" /\ result[i] = "Ok" /\ ~reported[i]
        /\ failed[j] = "handshake" /\ result[j] = "Err" /\ reported[j]

\* no probe of s has completed
Unprobed(s) == lastProbe[s] = "none"

\* C17: a server no probe of which has completed is scored 0, which no
\* score of another server is below; while no probe at all has completed
\* all scores are equal; and a pick made while some server is unprobed
\* returns a server scored 0.
C17_UnprobedIsBest ==
    /\ [](\A s \in Servers : Unprobed(s) =>
            /\ score_of(s) = 0
            /\ \A t \in Servers : score_of(s) <= score_of(t))
    /\ []((\A s \in Servers : Unprobed(s)) =>
            \A s, t \in Servers : score_of(s) = score_of(t))
    /\ [][\A i \in Sessions :
            (AcceptStep(i) /\ \E s \in Servers : Unprobed(s)) =>
                pickScore'[i] = 0]_vars

\* server 1 was probed and is scored above 0, server 2 was never probed
\* and was picked
C17_Witness ==
    /\ NumServers >= 2
    /\ lastProbe[1] = "ok"
    /\ score[1] > 0
    /\ Unprobed(2)
    /\ \E i \in Sessions : pc[i] # "Idle" /\ svr[i] = 2 /\ pickScore[i] = 0

\* C18: a session has its one pick from the step that accepts it, and none
\* before; the server it was given never changes; the connect and the
\* handshake are made with that server, whatever the scores have become.
C18_DialsPickedServer ==
    /\ [](\A i \in Sessions :
            /\ pc[i] = "Idle" => (picks[i] = 0 /\ svr[i] = 0)
            /\ pc[i] # "Idle" => (picks[i] = 1 /\ svr[i] \in Servers)
            /\ dials[i] >= 1 => dialed[i] = svr[i]
            /\ pc[i] = "Connecting" =>
                  /\ ENABLED (ConnectDone(i, TRUE) /\ shaken'[i] = svr[i])
                  /\ ~ENABLED (ConnectDone(i, TRUE) /\ shaken'[i] # svr[i]))
    /\ [][\A i \in Sessions :
            /\ pc[i] # "Idle" => (svr'[i] = svr[i] /\ picks'[i] = picks[i])
            /\ (pc[i] = "Accepted" /\ pc'[i] = "Connecting") =>
                  (dialed'[i] = svr[i] /\ dials'[i] = 1)
            /\ (pc[i] = "Connecting" /\ pc'[i] = "Handshaking") =>
                  (shaken'[i] = svr[i] /\ shakes'[i] = 1)]_vars

\* a session connects to the server it was given although a pick would
\* now return another one
C18_Witness ==
    \E i \in Sessions :
        /\ pc[i] = "Connecting"
        /\ dialed[i] = svr[i]
        /\ pick_server(score) # svr[i]
        /\ score[svr[i]] # pickScore[i]

\* C19: a session whose peer_addr() failed is Errored with result Err and
\* has made no connect and no handshake and created no copy.
C19_PeerAddrFailureNoDial ==
    \A i \in Sessions :
        failed[i] = "peer_addr" =>
            /\ pc[i] = "Errored"
            /\ result[i] = "Err"
            /\ dials[i] = 0 /\ dialed[i] = 0
            /\ shakes[i] = 0 /\ shaken[i] = 0
            /\ rhalf[i] = "none" /\ whalf[i] = "none"
            /\ clientSock[i] = "closed"

\* the only session so far failed at peer_addr() after set_keepalive had
\* failed too, and never dialled
C19_Witness ==
    /\ Accepted = 1
    /\ failed[1] = "peer_addr"
    /\ optLog = {"keepalive"}
    /\ dials[1] = 0
    /\ pc[1] = "Errored"

\* C20: a session closed by a poll that found both directions finished
\* reports client -> upstream, with the copy upstream -> client dropped;
\* from Relaying, for every pair of outcomes both of which are finished,
\* the poll reports client -> upstream with its outcome and cannot report
\* the other direction.
C20_ClientSideWinsTie ==
    \A i \in Sessions :
        /\ other[i] = "ready" =>
              /\ pc[i] = "Closed"
              /\ closedLog[i] = "client->server"
              /\ rhalf[i] \in Finished
              /\ whalf[i] = "dropped"
        /\ pc[i] = "Relaying" =>
              \A r, w \in Finished :
                  /\ ENABLED (/\ Poll(i, r, w)
                              /\ closedLog'[i] = "client->server"
                              /\ rhalf'[i] = r
                              /\ whalf'[i] = "dropped")
                  /\ ~ENABLED (Poll(i, r, w) /\ closedLog'[i] # "client->server")

\* a poll found both directions finished and the session was closed by
\* client -> upstream
C20_Witness ==
    \E i \in Sessions :
        /\ other[i] = "ready"
        /\ closedLog[i] = "client->server"
        /\ whalf[i] = "dropped"

====
